---- MODULE Spec2Model ----
(***************************************************************************)
(* Slack channel resolution of sentry's SlackNotifyServiceAction:           *)
(* SlackNotifyServiceForm.clean strips the typed channel, calls             *)
(* get_channel_id, which runs get_channel_id_with_timeout against Slack's   *)
(* paginated *.list endpoints.                                              *)
(*                                                                          *)
(* Python values are encoded so that every comparison is between values of  *)
(* one shape: a string is a sequence of one-character strings, None and ""  *)
(* and the empty dict are the empty sequence (all are falsy in Python), a   *)
(* tuple is a sequence, a cursor token is <<offset>>.                       *)
(***************************************************************************)
EXTENDS Integers, Sequences, FiniteSets, TLC

\* ---- bounds of the model ------------------------------------------------
\* entries in all directories of the workspace together
MaxEntries == 3
\* largest value of the wall clock
MaxClock == 2
\* the timeout get_channel_id_with_timeout is called with, in clock ticks
Timeout == 1
\* entries in all directories together in the runs followed to their end
MaxLiveEntries == 2

\* ---- module constants of notify_action.py -------------------------------
MEMBER_PREFIX == <<"@">>
CHANNEL_PREFIX == <<"#">>
\* ''.join([MEMBER_PREFIX, CHANNEL_PREFIX])
strip_channel_chars == MEMBER_PREFIX \o CHANNEL_PREFIX

None == <<>>

\* ---- input domains -------------------------------------------------------
Names == {<<"a">>, <<"b">>}
\* an entry of users.list: its "name" and its "profile", which is absent or a
\* dict holding display_name
MemberEntries == [name : Names, profile : {None, <<<<"a">>>>}]
\* an entry of a channel-type list: channels have no profile; one entry
\* carries one all the same
ChannelEntries == [name : Names, profile : {None}] \cup {[name |-> <<"b">>, profile |-> <<<<"a">>>>]}
\* what the user typed into the channel field
Channels == {<<"a">>, <<"#", "a">>, <<"@", "a">>}
\* the seconds a retry-after header can ask for
RetryAfters == {0, 1}
\* the workspace field: a valid choice (an integration id), or None
Workspaces == {<<"1">>, None}
\* the ids an Integration row of the organization can have
IntegrationIds == {<<"1">>, <<"2">>}
\* the 'workspace' option of a stored rule: an integration id, or nothing
RuleWorkspaces == IntegrationIds \cup {None}
\* the 'channel_id' option of a stored rule: an id found by a lookup, or
\* nothing (a rule stored without one)
RuleChannelIds ==
    {None} \cup {<<lt, i>> : lt \in {"conversations", "users"}, i \in 1..MaxEntries}
\* how Slack answers chat.postMessage
PostAnswers == {"ok", "not_ok", "http_error"}

VARIABLES
    legacy,              \* options.get("slack.legacy-app") is True
    directory,           \* the workspace at Slack: list_type -> entries
    clock,               \* time.time()
    channel,             \* data of the form: the channel as typed
    workspace,           \* data of the form: the workspace
    timeout,             \* get_channel_id_with_timeout's timeout
    pc,                  \* "clean", "request" (line 238 is next), "done"
    name,                \* get_channel_id_with_timeout's name
    time_to_quit,
    id_data,
    found_duplicate,
    scanned_item_count,
    li,                  \* position of the for loop in list_types
    cursor,
    result,              \* what channel_transformer returned
    logged,              \* the last self.logger.error / rate-limit info
    last_req,            \* <<list_type, cursor>> of the last session.get
    last_resp,           \* the answer to it
    outcome,             \* how clean ended
    cleaned_data,
    is_ignored,          \* event.group.is_ignored()
    integrations,        \* ids of the organization's slack Integration rows
    options,             \* the rule's stored data: workspace, channel_id
    after_pc,            \* "idle", "after", "returned", "yielded", "sent"
    futures,             \* what after has yielded
    notifications_sent,  \* the metric 'notifications.sent'
    posted,              \* the payloads posted to chat.postMessage
    rule_logged          \* self.logger calls of after and send_notification

vars == <<legacy, directory, clock, channel, workspace, timeout, pc, name,
          time_to_quit, id_data, found_duplicate, scanned_item_count, li,
          cursor, result, logged, last_req, last_resp, outcome, cleaned_data,
          is_ignored, integrations, options, after_pc, futures,
          notifications_sent, posted, rule_logged>>

\* the state of a rule firing on an event
rule == <<is_ignored, integrations, options, after_pc, futures,
          notifications_sent, posted, rule_logged>>

\* ---- helpers --------------------------------------------------------------
InSeq(x, s) == \E i \in 1..Len(s) : s[i] = x

\* str.lstrip(chars): drop leading characters that are in chars
RECURSIVE lstrip(_, _)
lstrip(s, chars) ==
    IF s # <<>> /\ InSeq(Head(s), chars) THEN lstrip(Tail(s), chars) ELSE s

\* mutant of LEGACY_LIST_TYPES: private groups carry the member prefix
LegacyGroupsAsMembers ==
    << <<"channels", "channels", CHANNEL_PREFIX>>,
       <<"groups", "groups", MEMBER_PREFIX>>,
       <<"users", "members", MEMBER_PREFIX>> >>

LEGACY_LIST_TYPES ==
    << <<"channels", "channels", CHANNEL_PREFIX>>,
       <<"groups", "groups", CHANNEL_PREFIX>>,
       <<"users", "members", MEMBER_PREFIX>> >>

LIST_TYPES ==
    << <<"conversations", "channels", CHANNEL_PREFIX>>,
       <<"users", "members", MEMBER_PREFIX>> >>

list_types == IF legacy = TRUE THEN LEGACY_LIST_TYPES ELSE LIST_TYPES

list_type == list_types[li][1]
\* mutant of prefix: the prefix is the character the user typed
prefixTyped == IF channel[1] = "@" THEN MEMBER_PREFIX ELSE CHANNEL_PREFIX

prefix == list_types[li][3]

\* the lengths of n directories that hold at most total entries together
RECURSIVE Lengths(_, _)
Lengths(n, total) ==
    IF n = 0 THEN {<<>>}
    ELSE UNION {{<<k>> \o r : r \in Lengths(n - 1, total - k)} : k \in 0..total}

\* the workspaces Slack can hold: a list of entries for each list type of the
\* mode
Directories(lg) ==
    IF lg
    THEN UNION {[channels : [1..n[1] -> ChannelEntries],
                 groups : [1..n[2] -> ChannelEntries],
                 users : [1..n[3] -> MemberEntries]] : n \in Lengths(3, MaxEntries)}
    ELSE UNION {[conversations : [1..n[1] -> ChannelEntries],
                 users : [1..n[2] -> MemberEntries]] : n \in Lengths(2, MaxEntries)}

\* ---- Slack's side of a *.list request -------------------------------------
\* the position in the directory a cursor stands for ("" is the start)
Offset(c) == IF c = <<>> THEN 0 ELSE c[1]

\* the entry at position i of a directory as the API returns it
Item(lt, i) ==
    [name |-> directory[lt][i].name, id |-> <<lt, i>>, profile |-> directory[lt][i].profile]

\* items[result_name] of a page of k entries after offset off
PageItems(lt, off, k) == [j \in 1..k |-> Item(lt, off + j)]

\* how many entries Slack may put on the page after offset off
PageSizes(lt, off) ==
    IF off < Len(directory[lt]) THEN 1..(Len(directory[lt]) - off) ELSE {0}

\* response_metadata.next_cursor of a page that ends at offset upto: a token
\* while entries remain; at the end "" or one more (empty) page
NextCursors(lt, upto) ==
    IF upto < Len(directory[lt]) THEN {<<upto>>} ELSE {<<>>, <<upto>>}

\* ---- get_channel_id_with_timeout ------------------------------------------
\* mutant of ScanItems: the display name is compared before the unique name
RECURSIVE ScanItemsDisplayFirst(_, _, _, _, _)
ScanItemsDisplayFirst(items, lt, pfx, nm, st) ==
    IF items = <<>> THEN st
    ELSE LET c == Head(items)
             counted == [st EXCEPT !.scanned_item_count = @ + 1]
         IN IF lt = "users" /\ c.profile # None /\ c.profile[1] = nm
            THEN IF st.id_data # None
                 THEN ScanItemsDisplayFirst(Tail(items), lt, pfx, nm,
                                            [counted EXCEPT !.found_duplicate = TRUE])
                 ELSE ScanItemsDisplayFirst(Tail(items), lt, pfx, nm,
                                            [counted EXCEPT !.id_data = <<pfx, c.id>>])
            ELSE IF c.name = nm
                 THEN [counted EXCEPT !.ret = <<pfx, c.id>>]
                 ELSE ScanItemsDisplayFirst(Tail(items), lt, pfx, nm, counted)

\* mutant of ScanItems: a later display-name match replaces the candidate
RECURSIVE ScanItemsOverwrite(_, _, _, _, _)
ScanItemsOverwrite(items, lt, pfx, nm, st) ==
    IF items = <<>> THEN st
    ELSE LET c == Head(items)
             counted == [st EXCEPT !.scanned_item_count = @ + 1]
         IN IF c.name = nm
            THEN [counted EXCEPT !.ret = <<pfx, c.id>>]
            ELSE IF lt = "users" /\ c.profile # None /\ c.profile[1] = nm
                 THEN ScanItemsOverwrite(Tail(items), lt, pfx, nm,
                                         [counted EXCEPT !.id_data = <<pfx, c.id>>])
                 ELSE ScanItemsOverwrite(Tail(items), lt, pfx, nm, counted)

\* mutant of ScanItems: display names are compared in every directory
RECURSIVE ScanItemsAnyDirectory(_, _, _, _, _)
ScanItemsAnyDirectory(items, lt, pfx, nm, st) ==
    IF items = <<>> THEN st
    ELSE LET c == Head(items)
             counted == [st EXCEPT !.scanned_item_count = @ + 1]
         IN IF c.name = nm
            THEN [counted EXCEPT !.ret = <<pfx, c.id>>]
            ELSE IF c.profile # None /\ c.profile[1] = nm
                 THEN IF st.id_data # None
                      THEN ScanItemsAnyDirectory(Tail(items), lt, pfx, nm,
                                                 [counted EXCEPT !.found_duplicate = TRUE])
                      ELSE ScanItemsAnyDirectory(Tail(items), lt, pfx, nm,
                                                 [counted EXCEPT !.id_data = <<pfx, c.id>>])
                 ELSE ScanItemsAnyDirectory(Tail(items), lt, pfx, nm, counted)

\* the for loop over items[result_name], lines 251-265; st.ret # None when the
\* loop returned
RECURSIVE ScanItems(_, _, _, _, _)
ScanItems(items, lt, pfx, nm, st) ==
    IF items = <<>> THEN st
    ELSE LET c == Head(items)
             counted == [st EXCEPT !.scanned_item_count = @ + 1]
         IN IF c.name = nm
            THEN [counted EXCEPT !.ret = <<pfx, c.id>>]
            ELSE IF lt = "users" /\ c.profile # None /\ c.profile[1] = nm
                 THEN IF st.id_data # None
                      THEN ScanItems(Tail(items), lt, pfx, nm,
                                     [counted EXCEPT !.found_duplicate = TRUE])
                      ELSE ScanItems(Tail(items), lt, pfx, nm,
                                     [counted EXCEPT !.id_data = <<pfx, c.id>>])
                 ELSE ScanItems(Tail(items), lt, pfx, nm, counted)

\* mutant of AfterPage: the deadline of line 268 is never looked at
AfterPageNoDeadline(s, next_cursor, now) ==
    LET here == [pc |-> "request", result |-> result, li |-> li,
                 cursor |-> next_cursor, logged |-> logged]
    IN IF s.ret # None
       THEN [here EXCEPT !.pc = "done", !.result = s.ret, !.cursor = cursor]
       ELSE IF next_cursor # <<>>
       THEN here
       ELSE IF s.found_duplicate
       THEN [here EXCEPT !.pc = "done", !.result = <<prefix, None>>]
       ELSE IF s.id_data # None
       THEN [here EXCEPT !.pc = "done", !.result = s.id_data]
       ELSE IF li < Len(list_types)
       THEN [here EXCEPT !.li = li + 1]
       ELSE [here EXCEPT !.pc = "done", !.result = <<prefix, None>>]

\* mutant of AfterPage: a candidate is returned at the end of its page
AfterPageEarlyCandidate(s, next_cursor, now) ==
    LET here == [pc |-> "request", result |-> result, li |-> li,
                 cursor |-> next_cursor, logged |-> logged]
    IN IF s.ret # None
       THEN [here EXCEPT !.pc = "done", !.result = s.ret, !.cursor = cursor]
       ELSE IF now > time_to_quit
       THEN [here EXCEPT !.pc = "done", !.result = <<prefix, None>>,
                         !.logged = <<list_type, "list_timed_out">>]
       ELSE IF s.found_duplicate
       THEN [here EXCEPT !.pc = "done", !.result = <<prefix, None>>]
       ELSE IF s.id_data # None
       THEN [here EXCEPT !.pc = "done", !.result = s.id_data]
       ELSE IF next_cursor # <<>>
       THEN here
       ELSE IF li < Len(list_types)
       THEN [here EXCEPT !.li = li + 1]
       ELSE [here EXCEPT !.pc = "done", !.result = <<prefix, None>>]

\* mutant of AfterPage: a name match is returned only from the last page
AfterPageKeepsPaging(s, next_cursor, now) ==
    LET here == [pc |-> "request", result |-> result, li |-> li,
                 cursor |-> next_cursor, logged |-> logged]
    IN IF s.ret # None /\ next_cursor = <<>>
       THEN [here EXCEPT !.pc = "done", !.result = s.ret, !.cursor = cursor]
       ELSE IF now > time_to_quit
       THEN [here EXCEPT !.pc = "done", !.result = <<prefix, None>>,
                         !.logged = <<list_type, "list_timed_out">>]
       ELSE IF next_cursor # <<>>
       THEN here
       ELSE IF s.found_duplicate
       THEN [here EXCEPT !.pc = "done", !.result = <<prefix, None>>]
       ELSE IF s.id_data # None
       THEN [here EXCEPT !.pc = "done", !.result = s.id_data]
       ELSE IF li < Len(list_types)
       THEN [here EXCEPT !.li = li + 1]
       ELSE [here EXCEPT !.pc = "done", !.result = <<prefix, None>>]

\* mutant of AfterPage: the deadline is looked at only before another page
AfterPageDeadlineLast(s, next_cursor, now) ==
    LET here == [pc |-> "request", result |-> result, li |-> li,
                 cursor |-> next_cursor, logged |-> logged]
    IN IF s.ret # None
       THEN [here EXCEPT !.pc = "done", !.result = s.ret, !.cursor = cursor]
       ELSE IF next_cursor # <<>>
       THEN IF now > time_to_quit
            THEN [here EXCEPT !.pc = "done", !.result = <<prefix, None>>,
                              !.logged = <<list_type, "list_timed_out">>]
            ELSE here
       ELSE IF s.found_duplicate
       THEN [here EXCEPT !.pc = "done", !.result = <<prefix, None>>]
       ELSE IF s.id_data # None
       THEN [here EXCEPT !.pc = "done", !.result = s.id_data]
       ELSE IF li < Len(list_types)
       THEN [here EXCEPT !.li = li + 1]
       ELSE [here EXCEPT !.pc = "done", !.result = <<prefix, None>>]

\* mutant of AfterPage: not found is reported with the first prefix
AfterPageNotFoundFirstPrefix(s, next_cursor, now) ==
    LET here == [pc |-> "request", result |-> result, li |-> li,
                 cursor |-> next_cursor, logged |-> logged]
    IN IF s.ret # None
       THEN [here EXCEPT !.pc = "done", !.result = s.ret, !.cursor = cursor]
       ELSE IF now > time_to_quit
       THEN [here EXCEPT !.pc = "done", !.result = <<prefix, None>>,
                         !.logged = <<list_type, "list_timed_out">>]
       ELSE IF next_cursor # <<>>
       THEN here
       ELSE IF s.found_duplicate
       THEN [here EXCEPT !.pc = "done", !.result = <<prefix, None>>]
       ELSE IF s.id_data # None
       THEN [here EXCEPT !.pc = "done", !.result = s.id_data]
       ELSE IF li < Len(list_types)
       THEN [here EXCEPT !.li = li + 1]
       ELSE [here EXCEPT !.pc = "done", !.result = <<list_types[1][3], None>>]

\* lines 256 and 267-279: what follows the scan of a page, s the scan's
\* outcome, now the time.time() of line 268
AfterPage(s, next_cursor, now) ==
    LET here == [pc |-> "request", result |-> result, li |-> li,
                 cursor |-> next_cursor, logged |-> logged]
    IN IF s.ret # None
       THEN [here EXCEPT !.pc = "done", !.result = s.ret, !.cursor = cursor]
       ELSE IF now > time_to_quit
       THEN [here EXCEPT !.pc = "done", !.result = <<prefix, None>>,
                         !.logged = <<list_type, "list_timed_out">>]
       ELSE IF next_cursor # <<>>
       THEN here
       ELSE IF s.found_duplicate
       THEN [here EXCEPT !.pc = "done", !.result = <<prefix, None>>]
       ELSE IF s.id_data # None
       THEN [here EXCEPT !.pc = "done", !.result = s.id_data]
       ELSE IF li < Len(list_types)
       THEN [here EXCEPT !.li = li + 1]
       ELSE [here EXCEPT !.pc = "done", !.result = <<prefix, None>>]

\* the clock when a request sent at now is answered
Answered(now) == {t \in {now, now + 1} : t <= MaxClock}

\* the clock after a request sent at now was answered and time.sleep(seconds)
\* has returned: sleep suspends for at least the seconds asked
Slept(now, seconds) == {t \in now..MaxClock : \E u \in Answered(now) : t = u + seconds}

\* clean, lines 49-69, once channel_transformer has returned res
CleanEnd(res) ==
    LET stripped == lstrip(channel, strip_channel_chars)
        channel_prefix == IF res # None THEN res[1] ELSE None
        channel_id == IF res # None THEN res[2] ELSE None
    IN IF channel_id = None /\ workspace # None
       THEN [outcome |-> "ValidationError", cleaned_data |-> None]
       ELSE IF channel_prefix = None
       THEN [outcome |-> "TypeError", cleaned_data |-> None]
       ELSE [outcome |-> "cleaned",
             cleaned_data |-> [channel |-> channel_prefix \o stripped,
                               channel_id |-> channel_id]]

Init ==
    /\ legacy \in BOOLEAN
    /\ directory \in Directories(legacy)
    /\ clock = 0
    /\ channel \in Channels
    /\ workspace \in Workspaces
    /\ timeout = Timeout
    /\ pc = "clean"
    /\ name = <<>>
    /\ time_to_quit = 0
    /\ id_data = None
    /\ found_duplicate = FALSE
    /\ scanned_item_count = 0
    /\ li = 1
    /\ cursor = <<>>
    /\ result = None
    /\ logged = None
    /\ last_req = None
    /\ last_resp = None
    /\ outcome = ""
    /\ cleaned_data = None
    /\ is_ignored = FALSE
    /\ integrations = {}
    /\ options = [workspace |-> None, channel_id |-> None]
    /\ after_pc = "idle"
    /\ futures = <<>>
    /\ notifications_sent = 0
    /\ posted = <<>>
    /\ rule_logged = <<>>

form == <<legacy, directory, channel, workspace, timeout>>

\* clean with a workspace that names no integration: get_channel_id catches
\* Integration.DoesNotExist and returns None, and clean goes on with None
CleanNoIntegration ==
    /\ pc = "clean"
    /\ workspace = None
    /\ result' = None
    /\ outcome' = CleanEnd(None).outcome
    /\ cleaned_data' = CleanEnd(None).cleaned_data
    /\ pc' = "done"
    /\ UNCHANGED <<rule, form, clock, name, time_to_quit, id_data, found_duplicate,
                   scanned_item_count, li, cursor, logged, last_req, last_resp>>

\* mutant of CleanResolve: a typed '@' starts the scan at the member directory
CleanResolveByPrefix ==
    /\ pc = "clean"
    /\ workspace # None
    /\ name' = lstrip(channel, strip_channel_chars)
    /\ time_to_quit' = clock + timeout
    /\ id_data' = None
    /\ found_duplicate' = FALSE
    /\ scanned_item_count' = 0
    /\ li' = IF channel[1] = "@" THEN Len(list_types) ELSE 1
    /\ cursor' = <<>>
    /\ pc' = "request"
    /\ UNCHANGED <<rule, form, clock, result, logged, last_req, last_resp, outcome,
                   cleaned_data>>

\* clean, lines 44-50, get_channel_id and get_channel_id_with_timeout up to
\* the first pass of the while loop (lines 205-235)
CleanResolve ==
    /\ pc = "clean"
    /\ workspace # None
    /\ name' = lstrip(channel, strip_channel_chars)
    /\ time_to_quit' = clock + timeout
    /\ id_data' = None
    /\ found_duplicate' = FALSE
    /\ scanned_item_count' = 0
    /\ li' = 1
    /\ cursor' = <<>>
    /\ pc' = "request"
    /\ UNCHANGED <<rule, form, clock, result, logged, last_req, last_resp, outcome,
                   cleaned_data>>

\* mutant of RateLimited: the retry starts the directory over
RateLimitedRestarts ==
    /\ pc = "request"
    /\ \E retry_after \in RetryAfters :
          /\ last_req' = <<list_type, cursor>>
          /\ last_resp' = <<"rate_limited", retry_after>>
          /\ clock' \in Slept(clock, retry_after)
    /\ cursor' = <<>>
    /\ UNCHANGED <<rule, form, pc, name, time_to_quit, id_data, found_duplicate,
                   scanned_item_count, li, result, logged, outcome,
                   cleaned_data>>

\* mutant of RateLimited: the deadline is looked at after the sleep
RateLimitedChecksDeadline ==
    /\ pc = "request"
    /\ \E retry_after \in RetryAfters :
          /\ last_req' = <<list_type, cursor>>
          /\ last_resp' = <<"rate_limited", retry_after>>
          /\ clock' \in Slept(clock, retry_after)
    /\ IF clock' > time_to_quit
       THEN /\ pc' = "done"
            /\ result' = <<prefix, None>>
            /\ logged' = <<list_type, "list_timed_out">>
            /\ outcome' = CleanEnd(result').outcome
            /\ cleaned_data' = CleanEnd(result').cleaned_data
       ELSE UNCHANGED <<pc, result, logged, outcome, cleaned_data>>
    /\ UNCHANGED <<rule, form, name, time_to_quit, id_data, found_duplicate,
                   scanned_item_count, li, cursor>>

\* lines 238-246: ok is false and the response has a retry-after header
RateLimited ==
    /\ pc = "request"
    /\ \E retry_after \in RetryAfters :
          /\ last_req' = <<list_type, cursor>>
          /\ last_resp' = <<"rate_limited", retry_after>>
          /\ clock' \in Slept(clock, retry_after)
    /\ UNCHANGED <<rule, form, pc, name, time_to_quit, id_data, found_duplicate,
                   scanned_item_count, li, cursor, result, logged, outcome,
                   cleaned_data>>

\* mutant of ListFailed: a recorded candidate is returned on failure
ListFailedReturnsCandidate ==
    /\ pc = "request"
    /\ clock' \in Answered(clock)
    /\ last_req' = <<list_type, cursor>>
    /\ last_resp' = <<"failed">>
    /\ logged' = <<list_type, "list_failed">>
    /\ result' = IF id_data # None THEN id_data ELSE <<prefix, None>>
    /\ outcome' = CleanEnd(result').outcome
    /\ cleaned_data' = CleanEnd(result').cleaned_data
    /\ pc' = "done"
    /\ UNCHANGED <<rule, form, name, time_to_quit, id_data, found_duplicate,
                   scanned_item_count, li, cursor>>

\* lines 238-249: ok is false and there is no retry-after header; the return
\* of line 249 ends get_channel_id and clean goes on
ListFailed ==
    /\ pc = "request"
    /\ clock' \in Answered(clock)
    /\ last_req' = <<list_type, cursor>>
    /\ last_resp' = <<"failed">>
    /\ logged' = <<list_type, "list_failed">>
    /\ result' = <<prefix, None>>
    /\ outcome' = CleanEnd(result').outcome
    /\ cleaned_data' = CleanEnd(result').cleaned_data
    /\ pc' = "done"
    /\ UNCHANGED <<rule, form, name, time_to_quit, id_data, found_duplicate,
                   scanned_item_count, li, cursor>>

\* lines 238-279: the response is ok and the page is scanned; on a return
\* clean goes on
PageOk ==
    /\ pc = "request"
    /\ \E k \in PageSizes(list_type, Offset(cursor)) :
       \E next_cursor \in NextCursors(list_type, Offset(cursor) + k) :
       \E now \in Answered(clock) :
          LET s == ScanItems(PageItems(list_type, Offset(cursor), k), list_type,
                             prefix, name,
                             [ret |-> None, id_data |-> id_data,
                              found_duplicate |-> found_duplicate,
                              scanned_item_count |-> scanned_item_count])
              a == AfterPage(s, next_cursor, now)
          IN /\ last_req' = <<list_type, cursor>>
             /\ last_resp' = <<"ok", next_cursor>>
             /\ clock' = now
             /\ id_data' = s.id_data
             /\ found_duplicate' = s.found_duplicate
             /\ scanned_item_count' = s.scanned_item_count
             /\ pc' = a.pc
             /\ result' = a.result
             /\ li' = a.li
             /\ cursor' = a.cursor
             /\ logged' = a.logged
             /\ IF a.pc = "done"
                THEN /\ outcome' = CleanEnd(a.result).outcome
                     /\ cleaned_data' = CleanEnd(a.result).cleaned_data
                ELSE UNCHANGED <<outcome, cleaned_data>>
    /\ UNCHANGED <<rule, form, name, time_to_quit>>

Next ==
    \/ CleanNoIntegration
    \/ CleanResolve
    \/ RateLimited
    \/ ListFailed
    \/ PageOk

Spec == Init /\ [][Next]_vars

\* ---- the loop under a clock that moves and a Slack that answers ------------
\* time.time() is later after each request than before it; the clock of the
\* model stops at MaxClock, which is past the deadline
Advances == clock' > clock \/ clock = MaxClock

RateLimitedTick == RateLimited /\ Advances

ListFailedTick == ListFailed /\ Advances

PageOkTick == PageOk /\ Advances

NextLive ==
    \/ CleanNoIntegration
    \/ CleanResolve
    \/ RateLimitedTick
    \/ ListFailedTick
    \/ PageOkTick

\* the calls followed to their end: the channel typed without prefix, a
\* workspace of at most MaxLiveEntries entries
InitLive ==
    /\ Init
    /\ channel = <<"a">>
    /\ \A n \in DOMAIN directory : Len(directory[n]) <= MaxLiveEntries
    /\ Len(directory["users"]) +
          (IF legacy THEN Len(directory["channels"]) + Len(directory["groups"])
           ELSE Len(directory["conversations"])) <= MaxLiveEntries

\* the while loop keeps running, and no request is rate limited for ever:
\* some request of the loop is answered with a page or with a failure
LiveSpec == InitLive /\ [][NextLive]_vars /\ WF_vars(PageOkTick \/ ListFailedTick)

\* ---- SlackNotifyServiceAction.after: the rule fires on an event ------------
\* the variables of the form's lookup, which a firing rule leaves alone
resolver == <<clock, pc, name, time_to_quit, id_data, found_duplicate,
              scanned_item_count, li, cursor, result, logged, last_req,
              last_resp, outcome, cleaned_data>>

\* line 143: u'slack:{}:{}'.format(integration_id, channel)
FutureKey(integration_id, channel_id) == <<"slack", ":", integration_id, ":", channel_id>>

\* a stored rule, an organization's integrations and an event, before after
\* runs; no form is being cleaned
InitAfter ==
    /\ legacy = FALSE
    /\ directory = [conversations |-> <<>>, users |-> <<>>]
    /\ clock = 0
    /\ channel = <<"a">>
    /\ workspace = None
    /\ timeout = Timeout
    /\ pc = "done"
    /\ name = <<>>
    /\ time_to_quit = 0
    /\ id_data = None
    /\ found_duplicate = FALSE
    /\ scanned_item_count = 0
    /\ li = 1
    /\ cursor = <<>>
    /\ result = None
    /\ logged = None
    /\ last_req = None
    /\ last_resp = None
    /\ outcome = ""
    /\ cleaned_data = None
    /\ is_ignored \in BOOLEAN
    /\ integrations \in SUBSET IntegrationIds
    /\ options \in [workspace : RuleWorkspaces, channel_id : RuleChannelIds]
    /\ after_pc = "after"
    /\ futures = <<>>
    /\ notifications_sent = 0
    /\ posted = <<>>
    /\ rule_logged = <<>>

\* mutant of After: the metric is incremented before the channel is tested
AfterCountsFirst ==
    /\ after_pc = "after"
    /\ LET integration_id == options.workspace
           channel_id == options.channel_id
       IN IF is_ignored \/ integration_id \notin integrations
          THEN /\ after_pc' = "returned"
               /\ UNCHANGED <<futures, notifications_sent, rule_logged>>
          ELSE IF channel_id = None
          THEN /\ rule_logged' = Append(rule_logged, <<"warning", "channel is none">>)
               /\ notifications_sent' = notifications_sent + 1
               /\ after_pc' = "returned"
               /\ UNCHANGED futures
          ELSE /\ notifications_sent' = notifications_sent + 1
               /\ futures' = Append(futures,
                                    [key |-> FutureKey(integration_id, channel_id),
                                     channel |-> channel_id])
               /\ after_pc' = "yielded"
               /\ UNCHANGED rule_logged
    /\ UNCHANGED <<form, resolver, is_ignored, integrations, options, posted>>

\* lines 96-147, the generator run to its end by its caller: it returns at an
\* ignored group (97-98), at Integration.DoesNotExist (104-112), at a channel
\* that is not set, after a warning (114-120); else it increments the metric
\* and yields one future that holds send_notification and the key
After ==
    /\ after_pc = "after"
    /\ LET integration_id == options.workspace
           channel_id == options.channel_id
       IN IF is_ignored \/ integration_id \notin integrations
          THEN /\ after_pc' = "returned"
               /\ UNCHANGED <<futures, notifications_sent, rule_logged>>
          ELSE IF channel_id = None
          THEN /\ rule_logged' = Append(rule_logged, <<"warning", "channel is none">>)
               /\ after_pc' = "returned"
               /\ UNCHANGED <<futures, notifications_sent>>
          ELSE /\ notifications_sent' = notifications_sent + 1
               /\ futures' = Append(futures,
                                    [key |-> FutureKey(integration_id, channel_id),
                                     channel |-> channel_id])
               /\ after_pc' = "yielded"
               /\ UNCHANGED rule_logged
    /\ UNCHANGED <<form, resolver, is_ignored, integrations, options, posted>>

\* lines 122-141: the callback of the yielded future posts the message to the
\* channel; an answer that is not ok is logged, an HTTP error status raises
send_notification ==
    /\ after_pc = "yielded"
    /\ \E answer \in PostAnswers :
          /\ posted' = Append(posted, [channel |-> futures[1].channel])
          /\ rule_logged' = IF answer = "not_ok"
                            THEN Append(rule_logged, <<"error", "rule.fail.slack_post">>)
                            ELSE rule_logged
    /\ after_pc' = "sent"
    /\ UNCHANGED <<form, resolver, is_ignored, integrations, options, futures,
                   notifications_sent>>

NextAfter ==
    \/ After
    \/ send_notification

AfterSpec == InitAfter /\ [][NextAfter]_vars

\* ---- vocabulary of the properties ------------------------------------------
\* get_channel_id_with_timeout has been entered / has returned
Resolving == workspace # None /\ pc # "clean"
Returned == workspace # None /\ pc = "done"

DirAt(j) == directory[list_types[j][1]]

\* positions of the entries of directory j whose unique name is the target
NameMatches(j) == {i \in 1..Len(DirAt(j)) : DirAt(j)[i].name = name}

\* positions of the member entries whose display_name is the target
DisplayMatches ==
    {i \in 1..Len(directory["users"]) :
        /\ directory["users"][i].profile # None
        /\ directory["users"][i].profile[1] = name}

NoNameMatch == \A j \in 1..Len(list_types) : NameMatches(j) = {}

Least(S) == CHOOSE x \in S : \A y \in S : x <= y

\* the first directory type, in scan order, that holds the target's name
FirstDir == Least({j \in 1..Len(list_types) : NameMatches(j) # {}})

\* entries of the directories scanned before directory j
RECURSIVE Before(_)
Before(j) == IF j = 1 THEN 0 ELSE Before(j - 1) + Len(DirAt(j - 1))

Total == Before(Len(list_types)) + Len(DirAt(Len(list_types)))

\* an entry with the target's name is among the entries scanned so far
ScannedMatch ==
    \E j \in 1..Len(list_types) : \E i \in NameMatches(j) :
        Before(j) + i <= scanned_item_count

IsResp(kind) == last_resp # None /\ last_resp[1] = kind

\* C1: if some entry's unique name is the target and neither an upstream
\* error nor a timeout ended the call, the result is the prefix of the first
\* directory type in scan order holding such an entry and that entry's id,
\* whatever display-name candidate or ambiguity was recorded by then.
C1_ExactNameWins ==
    (Returned /\ logged = None /\ ~NoNameMatch) =>
        result = <<list_types[FirstDir][3],
                   <<list_types[FirstDir][1], Least(NameMatches(FirstDir))>> >>

C1_Witness ==
    /\ Returned
    /\ found_duplicate
    /\ result[2] # None
    /\ result[1] = MEMBER_PREFIX
    /\ directory[result[2][1]][result[2][2]].name = name

\* C2: an id is returned only for an entry whose unique name is the target,
\* or for a member entry whose display_name is the target once the last page
\* of the member directory (no next cursor) has been scanned and no other
\* member entry has that display_name.
C2_IdOnlyWhenUnique ==
    (Returned /\ result[2] # None) =>
        LET lt == result[2][1]
            i == result[2][2]
        IN \/ directory[lt][i].name = name
           \/ /\ lt = "users"
              /\ DisplayMatches = {i}
              /\ last_req[1] = "users"
              /\ last_resp = <<"ok", <<>>>>
              /\ scanned_item_count = Total

C2_Witness ==
    /\ Returned
    /\ result[2] # None
    /\ directory[result[2][1]][result[2][2]].name # name
    /\ last_req[2] # <<>>

\* C3 as stated: with two or more member entries whose display_name is the
\* target and no entry named like the target, the result is ('@', absent).
C3_Original ==
    (Returned /\ Cardinality(DisplayMatches) >= 2 /\ NoNameMatch) =>
        result = <<MEMBER_PREFIX, None>>

\* C3 amended: in that case the id is absent, and the prefix is '@' unless an
\* upstream error or a timeout ended the call in a channel-type directory,
\* where it is '#'; the candidate is the first display-name match and is not
\* overwritten, and it is not returned once the ambiguity is marked.
C3_Amended ==
    /\ (Returned /\ Cardinality(DisplayMatches) >= 2 /\ NoNameMatch) =>
          /\ result[2] = None
          /\ (result[1] = CHANNEL_PREFIX) <=> (logged # None /\ logged[1] # "users")
          /\ (result[1] = MEMBER_PREFIX) <=> (logged = None \/ logged[1] = "users")
    /\ (Resolving /\ id_data # None) =>
          id_data = <<MEMBER_PREFIX, <<"users", Least(DisplayMatches)>> >>
    /\ (Returned /\ found_duplicate) => result # id_data

C3_Witness ==
    /\ Returned
    /\ NoNameMatch
    /\ found_duplicate
    /\ last_req[2] # <<>>
    /\ logged = None
    /\ result = <<MEMBER_PREFIX, None>>

\* C4: once an entry named like the target has been scanned the call is over:
\* nothing after that entry is scanned, the request that fetched its page is
\* the last one, no later page and no later directory type is requested.
C4_NoRequestAfterMatch ==
    (Resolving /\ ScannedMatch) =>
        /\ pc = "done"
        /\ li = FirstDir
        /\ scanned_item_count = Before(FirstDir) + Least(NameMatches(FirstDir))
        /\ last_req[1] = list_types[FirstDir][1]
        /\ Offset(last_req[2]) < Least(NameMatches(FirstDir))
        /\ IsResp("ok")

C4_Witness ==
    /\ Returned
    /\ ScannedMatch
    /\ legacy = TRUE
    /\ li = 1
    /\ scanned_item_count < Len(directory["channels"])
    /\ Len(directory["users"]) > 0

\* C5: a rate-limited response makes the resolver sleep for at least the
\* retry-after seconds and leaves cursor, directory type, candidate and
\* ambiguity flag alone without ending the call; the request that follows is
\* the same one.
C5_RateLimitRetriesSame ==
    [][/\ (pc = "request" /\ last_resp' # None /\ last_resp'[1] = "rate_limited") =>
            /\ clock' >= clock + last_resp'[2]
            /\ last_req' = <<list_type, cursor>>
            /\ pc' = "request"
            /\ cursor' = cursor
            /\ li' = li
            /\ id_data' = id_data
            /\ found_duplicate' = found_duplicate
            /\ result' = result
       /\ (pc = "request" /\ IsResp("rate_limited")) => last_req' = last_req
      ]_vars

C5_Witness ==
    /\ pc = "request"
    /\ IsResp("rate_limited")
    /\ last_resp[2] = 1
    /\ last_req[2] # <<>>
    /\ id_data # None

\* C6: when a page was fetched and scanned without a name match and the clock
\* is past start + timeout, the call is over with (prefix of the directory in
\* progress, absent), also on a last page with a unique candidate recorded.
C6_TimeoutAfterPage ==
    (Resolving /\ IsResp("ok") /\ ~ScannedMatch /\ clock > time_to_quit) =>
        /\ pc = "done"
        /\ result = <<list_types[li][3], None>>
        /\ last_req[1] = list_types[li][1]
        /\ logged = <<list_types[li][1], "list_timed_out">>

C6_Witness ==
    /\ Returned
    /\ last_resp = <<"ok", <<>>>>
    /\ clock > time_to_quit
    /\ id_data # None
    /\ ~found_duplicate
    /\ result = <<MEMBER_PREFIX, None>>

\* C7: a response with ok false and no retry-after ends the call at once with
\* (prefix of the directory in progress, absent): no retry, no further
\* request, a recorded candidate is dropped.
C7_FailureAborts ==
    IsResp("failed") =>
        /\ pc = "done"
        /\ result = <<list_types[li][3], None>>
        /\ last_req = <<list_types[li][1], cursor>>
        /\ logged = <<list_types[li][1], "list_failed">>

C7_Witness ==
    /\ IsResp("failed")
    /\ id_data # None
    /\ ~found_duplicate
    /\ result = <<MEMBER_PREFIX, None>>

\* the scan order the mode fixes
ScanOrder ==
    IF legacy = TRUE THEN <<"channels", "groups", "users">> ELSE <<"conversations", "users">>

\* C8: the directory types are requested in the order fixed by the mode,
\* whatever was typed; a directory type is first requested, with the empty
\* cursor, only after every earlier one was paged to a response without next
\* cursor, with no name match, no error and no timeout.
C8_FixedScanOrder ==
    Resolving =>
        /\ last_req # None =>
              \/ last_req[1] = ScanOrder[li]
              \/ /\ pc = "request"
                 /\ li > 1
                 /\ last_req[1] = ScanOrder[li - 1]
                 /\ last_resp = <<"ok", <<>>>>
                 /\ clock <= time_to_quit
        /\ (pc = "request" /\ (last_req = None \/ last_req[1] # ScanOrder[li])) =>
              cursor = <<>>
        /\ (pc = "request" /\ last_req = None) => li = 1
        /\ pc = "request" => logged = None
        /\ scanned_item_count >= Before(li)
        /\ \A j \in 1..(li - 1) : NameMatches(j) = {}

C8_Witness ==
    /\ Resolving
    /\ legacy = TRUE
    /\ channel[1] = "@"
    /\ pc = "request"
    /\ li = 3
    /\ last_req[1] = "groups"
    /\ Len(directory["channels"]) > 0

\* the prefix character the user typed, '#' when none was typed
TypedPrefix == IF channel[1] = "@" THEN MEMBER_PREFIX ELSE CHANNEL_PREFIX

\* C9 as stated: the prefix of the result and of the stored channel label is
\* the one the user typed, '#' when none was typed.
C9_Original ==
    (Returned /\ outcome = "cleaned") =>
        /\ result[1] = TypedPrefix
        /\ cleaned_data.channel = TypedPrefix \o name

\* C9 amended: the prefix of the result and of the stored channel label is
\* the prefix of the directory type in which the lookup ended ('#' for a
\* channel-type directory, '@' for users); the characters the user typed in
\* front of the name are stripped and play no part.
C9_Amended ==
    Returned =>
        /\ result[1] = list_types[li][3]
        /\ result[1] = (IF list_types[li][1] = "users" THEN <<"@">> ELSE <<"#">>)
        /\ result[2] # None => result[2][1] = list_types[li][1]
        /\ \E k \in 0..Len(channel) :
              /\ name = SubSeq(channel, k + 1, Len(channel))
              /\ \A i \in 1..k : channel[i] \in {"@", "#"}
        /\ name # <<>> => name[1] \notin {"@", "#"}
        /\ outcome = "cleaned" =>
              cleaned_data = [channel |-> result[1] \o name, channel_id |-> result[2]]

C9_Witness ==
    /\ Returned
    /\ channel[1] = "#"
    /\ outcome = "cleaned"
    /\ cleaned_data.channel = <<"@", "a">>

\* C10: when every directory type is paged to the end with no name match, no
\* display-name match, no error and no timeout, the result is ('@', absent)
\* in both modes.
C10_NotFound ==
    (Returned /\ logged = None /\ NoNameMatch /\ DisplayMatches = {}) =>
        /\ result = <<MEMBER_PREFIX, None>>
        /\ scanned_item_count = Total
        /\ last_req[1] = "users"

C10_Witness ==
    /\ Returned
    /\ logged = None
    /\ NoNameMatch
    /\ DisplayMatches = {}
    /\ legacy = TRUE
    /\ Len(directory["channels"]) > 0
    /\ Len(directory["users"]) > 0
    /\ result = <<MEMBER_PREFIX, None>>

\* the channel-type directory types of both modes
ChannelTypes == {"conversations", "channels", "groups"}

\* C11: when the member directory is paged to the end without error or
\* timeout, exactly one member entry has the target as display_name and no
\* entry is named like the target, the result is ('@', id of that entry);
\* display names count for member entries only: an entry of a channel-type
\* directory is never the candidate and never marks an ambiguity.
C11_UniqueDisplayName ==
    /\ (Returned /\ logged = None /\ NoNameMatch /\ Cardinality(DisplayMatches) = 1) =>
          result = <<MEMBER_PREFIX, <<"users", Least(DisplayMatches)>> >>
    /\ Resolving =>
          /\ id_data # None => id_data[2][1] = "users"
          /\ found_duplicate => Cardinality(DisplayMatches) >= 2
          /\ list_types[li][1] \in ChannelTypes => (id_data = None /\ ~found_duplicate)

C11_Witness ==
    /\ Returned
    /\ NoNameMatch
    /\ result[2] # None
    /\ result[1] = MEMBER_PREFIX
    /\ \E j \in 1..Len(list_types) :
          /\ list_types[j][1] \in ChannelTypes
          /\ \E i \in 1..Len(DirAt(j)) :
                DirAt(j)[i].profile # None /\ DirAt(j)[i].profile[1] = name

\* C12 as stated: the deadline is compared only after a fetched page was
\* scanned, never on a rate-limited response; the first page completed past
\* the deadline ends the call with an absent id; only a rate-limited request
\* keeps a call running past the deadline.
C12_Original ==
    /\ (logged # None /\ logged[2] = "list_timed_out") => IsResp("ok")
    /\ IsResp("rate_limited") => (pc = "request" /\ logged = None)
    /\ (Resolving /\ IsResp("ok") /\ clock > time_to_quit) =>
          (pc = "done" /\ result[2] = None)
    /\ (pc = "request" /\ clock > time_to_quit) => IsResp("rate_limited")

\* C12 amended: the same, except that the page completed past the deadline
\* ends the call with an absent id only if it holds no entry named like the
\* target; such an entry is still returned.
C12_Amended ==
    /\ (logged # None /\ logged[2] = "list_timed_out") => IsResp("ok")
    /\ IsResp("rate_limited") => (pc = "request" /\ logged = None)
    /\ (Resolving /\ IsResp("ok") /\ clock > time_to_quit) =>
          /\ pc = "done"
          /\ ~ScannedMatch => result[2] = None
          /\ ScannedMatch =>
                result = <<list_types[FirstDir][3],
                           <<list_types[FirstDir][1], Least(NameMatches(FirstDir))>> >>
    /\ (pc = "request" /\ clock > time_to_quit) => IsResp("rate_limited")

C12_Witness ==
    /\ pc = "request"
    /\ clock > time_to_quit
    /\ IsResp("rate_limited")
    /\ last_req[2] # <<>>

C14_Returns == (pc = "request") ~> (pc = "done")

C14_Witness ==
    /\ Returned
    /\ logged # None
    /\ logged[2] = "list_timed_out"
    /\ cursor # <<>>
    /\ Offset(cursor) = Len(directory[logged[1]])
    /\ last_req[2] = cursor

\* C15: clean ends in one of two ways, whatever the workspace and whatever the
\* resolver returned: a ValidationError, or cleaned data whose channel_id is a
\* present id and whose channel is the resolver's prefix followed by the
\* stripped name; it never fails with another error. The code breaks this:
\* with no workspace the resolver returns None, the test of line 54 lets it
\* pass, and line 66 adds None to a string.
C15_TwoOutcomes ==
    pc = "done" =>
        /\ outcome \in {"ValidationError", "cleaned"}
        /\ outcome = "cleaned" =>
              /\ cleaned_data.channel_id # None
              /\ result # None
              /\ cleaned_data.channel =
                    result[1] \o lstrip(channel, strip_channel_chars)

\* C16: once after has ended, it has yielded exactly one future, keyed
\* slack:<workspace id>:<channel_id>, and incremented notifications.sent once,
\* if and only if the group is not ignored, the integration of the rule
\* exists and the rule's channel_id is set; otherwise it has yielded nothing,
\* incremented nothing and no message is posted.
C16_NotifiesIffAllThree ==
    after_pc \in {"returned", "yielded", "sent"} =>
        IF /\ ~is_ignored
           /\ options.workspace \in integrations
           /\ options.channel_id # None
        THEN /\ Len(futures) = 1
             /\ futures[1].key =
                  <<"slack", ":", options.workspace, ":", options.channel_id>>
             /\ notifications_sent = 1
        ELSE /\ futures = <<>>
             /\ notifications_sent = 0
             /\ posted = <<>>
             /\ after_pc = "returned"

C16_Witness ==
    /\ after_pc = "sent"
    /\ ~is_ignored
    /\ Len(futures) = 1
    /\ notifications_sent = 1
    /\ Len(posted) = 1
    /\ posted[1].channel = options.channel_id

====
